---- MODULE Spec2Model ----
(***************************************************************************)
(* Playback state machine of PlaybackControls (playback-controls.ts):      *)
(* state / fraction / isSuspended, the requestAnimationFrame clock chains  *)
(* created by #startTimer, and the abortable listener promises.            *)
(*                                                                         *)
(* Fractions are grid points k in 0..FMax standing for k/FMax.  Time is    *)
(* counted in units of durationMillis/FMax, so that passed/durationMillis  *)
(* is `passed' grid points.                                                *)
(***************************************************************************)
EXTENDS Integers, Sequences, FiniteSets, TLC

\* ------------------------------------------------------------------ bounds
FMax == 2          \* fraction 1 is grid point FMax
MaxPending == 2    \* listener promises that are registered, unsettled and not cancelled
MaxCancelled == 1  \* cancelled listener promises whose settlement is followed
MaxChains == 2     \* requestAnimationFrame callbacks that are scheduled
MaxWait == 1       \* time units a suspended clock tick is followed for
MaxDelta == 1      \* largest time between two animation frames
MaxTimeObjs == 2   \* TimeBasedState objects that are referred to at one time

\* --------------------------------------------------------- PlaybackState
STOPPED == "stopped"
PLAYING == "playing"
FINISHED == "finished"
PAUSED == "paused"
PLAYING_BACKWARDS == "playing_backwards"

PlaybackState == {STOPPED, PLAYING, FINISHED, PAUSED, PLAYING_BACKWARDS}

VARIABLES
    state,              \* #state.state
    fraction,           \* #state.fraction
    isSuspended,        \* #state.isSuspended
    time,               \* #state.time: 0 = absent, else identity of the TimeBasedState object
    animationCallback,  \* #animationCallback: which hooks the registered listener has
    promises,           \* listener promises wrapped by #abortablePromise, unsettled
    cancelled,          \* those of them whose AbortController has been aborted
    frames,             \* requestAnimationFrame callbacks (closures `run') that are scheduled
    buttons,            \* the control buttons that carry no "disabled" attribute
    log,                \* hook calls, method calls and events of the last operation
    attribute,          \* the "animation-duration" attribute as parseFloat reads it, 0 = absent or not a number
    durationMillis,     \* durationMillis of every TimeBasedState object that is still referred to
    lastOp              \* the last operation, its input and the snapshot before it

vars == <<state, fraction, isSuspended, time, animationCallback, promises, cancelled,
          frames, buttons, log, attribute, durationMillis, lastOp>>

\* ----------------------------------------------------------------- helpers
Min(a, b) == IF a < b THEN a ELSE b
Max(a, b) == IF a > b THEN a ELSE b

RemoveAt(seq, i) == SubSeq(seq, 1, i - 1) \o SubSeq(seq, i + 1, Len(seq))

\* isPlaying() of the state record
isPlaying(s) == s \in {PLAYING, PLAYING_BACKWARDS}

\* {...state}: a shallow copy; `time' is copied as a reference
Snapshot(m) ==
    [state |-> m.state, fraction |-> m.fraction,
     isSuspended |-> m.isSuspended, time |-> m.time]

NoSnapshot == [state |-> "-", fraction |-> 0, isSuspended |-> FALSE, time |-> 0]

\* the PlaybackStateInfo part of a snapshot, as a hook or an event listener reads it
Info(snapshot) ==
    [state |-> snapshot.state, fraction |-> snapshot.fraction,
     isSuspended |-> snapshot.isSuspended]

\* listener shapes: which optional hooks exist (move is required)
\* and whether the stopped hook raises an exception
NoListener ==
    [present |-> FALSE, start |-> FALSE, step |-> FALSE, stopped |-> FALSE, throws |-> FALSE]
FullListener ==
    [present |-> TRUE, start |-> TRUE, step |-> TRUE, stopped |-> TRUE, throws |-> FALSE]
MoveOnlyListener ==
    [present |-> TRUE, start |-> FALSE, step |-> FALSE, stopped |-> FALSE, throws |-> FALSE]
ThrowingListener ==
    [present |-> TRUE, start |-> TRUE, step |-> TRUE, stopped |-> TRUE, throws |-> TRUE]
Listeners == {FullListener, MoveOnlyListener}

\* what a boolean hook can return synchronously
Refusals == {"false", "undefined", "null"}
HookResults == Refusals \cup {"true", "promise"}
\* one refusal, approval and deferral, where the three refusals need not be told apart
TickResults == {"false", "true", "promise"}
\* how a promise returned by a hook can settle
Outcomes == {"true", "false", "reject"}

\* the machine as one record, so that the methods are operators on it
Machine ==
    [state |-> state, fraction |-> fraction, isSuspended |-> isSuspended,
     time |-> time, cb |-> animationCallback, promises |-> promises,
     cancelled |-> cancelled, frames |-> frames, buttons |-> buttons, log |-> <<>>,
     exc |-> FALSE, attribute |-> attribute, durationMillis |-> durationMillis]

\* #play, #playBackward, #pause, #stop
Buttons == {"play", "playBackward", "pause", "stop"}
\* #updateActivation as #started(backwards) and the playing branch of
\* #moveInternal call it
Started(backwards) == Buttons \ {IF backwards THEN "playBackward" ELSE "play"}
\* #updateActivation as #paused() and the resting branch of #moveInternal call it
Rested(f) == IF f = 0 THEN {"play", "playBackward"} ELSE Buttons \ {"pause"}

Logged(m, call, type, from, to) ==
    [m EXCEPT !.log = Append(m.log, [call |-> call, type |-> type,
                                     from |-> Info(from), to |-> Info(to)])]

\* listener.stopped?.({...state})
\* exc: an exception is propagating out of the code that ran last
CallStopped(m) ==
    IF m.cb.present /\ m.cb.stopped
    THEN [Logged(m, "stopped", IF m.cb.throws THEN "thrown" ELSE "", NoSnapshot, Snapshot(m))
            EXCEPT !.exc = m.cb.throws]
    ELSE m

\* try { listener.stopped({...state}) } catch (e) {}
TryCallStopped(m) == [CallStopped(m) EXCEPT !.exc = m.exc]

\* JavaScript numbers that are no fractions on the grid: they are told apart
\* from the grid points and ordered as JavaScript orders them; every
\* comparison with NaN is false
NegInfinity == 0 - 3
PosInfinity == FMax + 3
NaN == FMax + 4
NonFinite == {NaN, PosInfinity, NegInfinity}
isFinite(x) == x \notin NonFinite
Less(a, b) == a # NaN /\ b # NaN /\ a < b

\* ------------------------------------------------------------------ clock
\* index of the scheduled callback whose handle is in #state.time.timer
TimerIndex(m) ==
    {i \in DOMAIN m.frames : m.frames[i].timeObj = m.time /\ m.frames[i].isTimer}

\* timeInfo.timer of object t is deleted or overwritten
ForgetTimer(fs, t) ==
    [i \in DOMAIN fs |-> IF fs[i].timeObj = t THEN [fs[i] EXCEPT !.isTimer = FALSE] ELSE fs[i]]

cancelTimer(m) ==
    IF m.time = 0 \/ TimerIndex(m) = {}
    THEN m
    ELSE [m EXCEPT !.frames = RemoveAt(m.frames, CHOOSE i \in TimerIndex(m) : TRUE)]

\* timeInfo.timer = requestAnimationFrame(run) for closure c
Schedule(m, c) ==
    [m EXCEPT !.frames = Append(ForgetTimer(m.frames, c.timeObj),
                                [c EXCEPT !.isTimer = TRUE, !.due = FALSE])]

startTimer(m, oneOff) ==
    IF m.time = 0
    THEN m
    ELSE LET m1 == cancelTimer(m)
         IN IF ~isPlaying(m1.state) /\ ~oneOff
            THEN m1
            ELSE Schedule(m1, [timeObj |-> m1.time, initialFraction |-> m1.fraction,
                               passed |-> -1, oneOff |-> oneOff,
                               isTimer |-> TRUE, due |-> FALSE])

\* ------------------------------------------------------------- suspension
NoFrame == [timeObj |-> 0, initialFraction |-> 0, passed |-> -1, oneOff |-> FALSE,
            isTimer |-> FALSE, due |-> FALSE]

\* the closure of a pending promise: what its then/catch handlers captured and
\* use (start's abort overwrites the isSuspended it restores, so the captured
\* flag is never observed and is kept FALSE)
Closure(kind, prev, f, run) ==
    [kind |-> kind, previousState |-> prev, fraction |-> f, backwards |-> FALSE,
     run |-> run, waited |-> 0, ctrl |-> TRUE, aborted |-> FALSE]

NoClosure == Closure("-", NoSnapshot, 0, NoFrame)

\* ctrl.abort(): the race is lost to the abort signal, the handlers of the
\* closure will never run and what they captured is dropped
Aborted(p) ==
    [NoClosure EXCEPT !.kind = p.kind, !.aborted = TRUE, !.ctrl = FALSE]

\* the last n elements of a sequence
Last(seq, n) == SubSeq(seq, Max(1, Len(seq) - n + 1), Len(seq))

cancelSuspension(m) ==
    IF m.isSuspended
    THEN LET c == {i \in DOMAIN m.promises : m.promises[i].ctrl}
         IN IF c = {}
            THEN [m EXCEPT !.isSuspended = FALSE]
            ELSE LET i == CHOOSE j \in c : TRUE
                 IN [m EXCEPT !.isSuspended = FALSE,
                              !.promises = RemoveAt(m.promises, i),
                              !.cancelled = Last(Append(m.cancelled, Aborted(m.promises[i])),
                                                 MaxCancelled)]
    ELSE m

\* (mutant) the abort signal is not part of the race
abortablePromiseUnraced(p, outcome) == outcome

\* Promise.race of the listener's promise with the abort signal
abortablePromise(p, outcome) == IF p.aborted THEN "abort" ELSE outcome

\* state.isSuspended = true; this.#suspensionControl = ctrl
Suspend(m, p) ==
    [m EXCEPT !.isSuspended = TRUE,
              !.promises = Append([i \in DOMAIN m.promises |->
                                      [m.promises[i] EXCEPT !.ctrl = FALSE]],
                                  [p EXCEPT !.ctrl = TRUE, !.aborted = FALSE])]

\* ---------------------------------------------------------------- methods
\* (mutant) a resting state is kept as it is instead of being resolved from
\* the new fraction
moveInternalKeepsState(m, f, skipTimer) ==
    LET m1 == IF skipTimer THEN m ELSE cancelTimer(m)
        fr == IF f < 0 THEN 0 ELSE IF f > FMax THEN FMax ELSE f
        m2 == [m1 EXCEPT !.fraction = fr,
                         !.buttons = IF isPlaying(m1.state)
                                     THEN Started(m1.state = PLAYING_BACKWARDS)
                                     ELSE Rested(fr)]
    IN IF m2.time # 0 /\ ~skipTimer
       THEN startTimer(m2, ~isPlaying(m2.state))
       ELSE m2

\* (mutant) the stopped hook is called whether or not the machine comes to rest
moveInternalAlwaysStopped(m, f, skipTimer) ==
    LET m1 == IF skipTimer THEN m ELSE cancelTimer(m)
        fr == IF Less(f, 0) THEN 0 ELSE IF Less(FMax, f) THEN FMax ELSE f
        resting == \/ m1.state \in {PAUSED, STOPPED, FINISHED}
                   \/ (fr = 0 /\ m1.state = PLAYING_BACKWARDS)
                   \/ (fr = FMax /\ m1.state = PLAYING)
        m2 == [m1 EXCEPT !.fraction = fr,
                         !.state = IF resting
                                   THEN IF fr = 0 THEN STOPPED
                                        ELSE IF fr = FMax THEN FINISHED ELSE PAUSED
                                   ELSE m1.state,
                         !.buttons = IF resting THEN Rested(fr)
                                     ELSE Started(m1.state = PLAYING_BACKWARDS)]
        m3 == TryCallStopped(m2)
    IN IF ~isFinite(fr) THEN [m1 EXCEPT !.exc = TRUE]
       ELSE IF m3.time # 0 /\ ~skipTimer
       THEN startTimer(m3, ~isPlaying(m3.state))
       ELSE m3

\* (mutant) the fraction is stored as it is given, without the clamp
moveInternalUnclamped(m, f, skipTimer) ==
    LET m1 == IF skipTimer THEN m ELSE cancelTimer(m)
        resting == \/ m1.state \in {PAUSED, STOPPED, FINISHED}
                   \/ (f = 0 /\ m1.state = PLAYING_BACKWARDS)
                   \/ (f = FMax /\ m1.state = PLAYING)
        m2 == [m1 EXCEPT !.fraction = f,
                         !.state = IF resting
                                   THEN IF f = 0 THEN STOPPED
                                        ELSE IF f = FMax THEN FINISHED ELSE PAUSED
                                   ELSE m1.state,
                         !.buttons = IF resting THEN Rested(f)
                                     ELSE Started(m1.state = PLAYING_BACKWARDS)]
        m3 == IF resting THEN TryCallStopped(m2) ELSE m2
    IN IF m3.time # 0 /\ ~skipTimer
       THEN startTimer(m3, ~isPlaying(m3.state))
       ELSE m3

\* #moveInternal(fraction, {skipTimer}): the commit step
moveInternal(m, f, skipTimer) ==
    LET m1 == IF skipTimer THEN m ELSE cancelTimer(m)
        fr == IF Less(f, 0) THEN 0 ELSE IF Less(FMax, f) THEN FMax ELSE f
        resting == \/ m1.state \in {PAUSED, STOPPED, FINISHED}
                   \/ (fr = 0 /\ m1.state = PLAYING_BACKWARDS)
                   \/ (fr = FMax /\ m1.state = PLAYING)
        m2 == [m1 EXCEPT !.fraction = fr,
                         !.state = IF resting
                                   THEN IF fr = 0 THEN STOPPED
                                        ELSE IF fr = FMax THEN FINISHED ELSE PAUSED
                                   ELSE m1.state,
                         !.buttons = IF resting THEN Rested(fr)
                                     ELSE Started(m1.state = PLAYING_BACKWARDS)]
        m3 == IF resting THEN TryCallStopped(m2) ELSE m2
    IN IF ~isFinite(fr) THEN [m1 EXCEPT !.exc = TRUE]
       ELSE IF m3.time # 0 /\ ~skipTimer
       THEN startTimer(m3, ~isPlaying(m3.state))
       ELSE m3

\* (mutant) the catch-all event is left out after a jump
dispatchEventWithoutChange(m, type, oldState) ==
    IF type \in {"jumpplaying", "jumppaused"}
    THEN Logged(m, "event", type, oldState, Snapshot(m))
    ELSE Logged(Logged(m, "event", type, oldState, Snapshot(m)),
                "event", "change", oldState, Snapshot(m))

\* #dispatchEvent(type, oldState): the tagged event and the catch-all "change"
dispatchEvent(m, type, oldState) ==
    Logged(Logged(m, "event", type, oldState, Snapshot(m)),
           "event", "change", oldState, Snapshot(m))

\* (mutant) stop() leaves a suspension as it is
stopKeepsSuspension(m) ==
    LET m1 == Logged(m, "stop", "", NoSnapshot, NoSnapshot)
    IN CallStopped(moveInternal([m1 EXCEPT !.state = STOPPED], 0, FALSE))

\* (mutant) stop() reports its transition to the event listeners
stopDispatches(m) ==
    LET m1 == Logged(m, "stop", "", NoSnapshot, NoSnapshot)
        m2 == cancelSuspension([m1 EXCEPT !.state = STOPPED])
        m3 == CallStopped(moveInternal(m2, 0, FALSE))
    IN IF m3.exc THEN m3 ELSE dispatchEvent(m3, "stop", Snapshot(m))

stop(m) ==
    LET m1 == Logged(m, "stop", "", NoSnapshot, NoSnapshot)
        m2 == cancelSuspension([m1 EXCEPT !.state = STOPPED])
    IN CallStopped(moveInternal(m2, 0, FALSE))

finish(m) ==
    LET m1 == Logged(m, "finish", "", NoSnapshot, NoSnapshot)
        m2 == cancelSuspension([m1 EXCEPT !.state = FINISHED])
    IN CallStopped(moveInternal(m2, FMax, FALSE))

\* (mutant) pause() at a boundary fraction does not degrade to stop()/finish()
pauseNoDegrade(m) ==
    LET m1 == cancelSuspension(Logged(m, "pause", "", NoSnapshot, NoSnapshot))
    IN CallStopped(cancelTimer([m1 EXCEPT !.state = PAUSED,
                                         !.buttons = Buttons \ {"pause"}]))

pause(m) ==
    LET m1 == cancelSuspension(Logged(m, "pause", "", NoSnapshot, NoSnapshot))
    IN IF m1.fraction <= 0 THEN stop(m1)
       ELSE IF m1.fraction >= FMax THEN finish(m1)
       ELSE CallStopped(cancelTimer([m1 EXCEPT !.state = PAUSED,
                                                !.buttons = Buttons \ {"pause"}]))

\* (mutant) an approved start does not start the clock
finishStartWithoutTimer(m, backwards) ==
    [m EXCEPT !.isSuspended = FALSE, !.buttons = Started(backwards)]

\* finishStart and abort, the two closures of start()
finishStart(m, backwards) ==
    LET m1 == [m EXCEPT !.isSuspended = FALSE, !.buttons = Started(backwards)]
    IN IF m1.time # 0 THEN startTimer(m1, FALSE) ELSE m1

\* (mutant) abort restores the state but not the fraction that the tentative
\* start had reset
abortStartKeepsFraction(m, previousState) ==
    [m EXCEPT !.state = previousState.state,
              !.time = previousState.time,
              !.isSuspended = FALSE]

abortStart(m, previousState) ==
    [m EXCEPT !.state = previousState.state,
              !.fraction = previousState.fraction,
              !.time = previousState.time,
              !.isSuspended = FALSE]

\* (mutant) start() leaves the fraction where it is, also at the far boundary
startWithoutReset(m, backwards, r) ==
    IF ~m.cb.present THEN m
    ELSE IF isPlaying(m.state) /\ (backwards <=> (m.state = PLAYING_BACKWARDS)) THEN m
    ELSE
    LET previousState == Snapshot(m)
        m1 == cancelSuspension(m)
        m2 == [m1 EXCEPT !.state = IF backwards THEN PLAYING_BACKWARDS ELSE PLAYING]
        m3 == Logged(m2, "hook", "start", NoSnapshot, NoSnapshot)
    IN IF ~m.cb.start THEN finishStart(m2, backwards)
       ELSE IF r \in Refusals THEN abortStart(m3, previousState)
       ELSE IF r = "promise"
            THEN Suspend(m3, [Closure("start", [previousState EXCEPT !.isSuspended = FALSE],
                                      0, NoFrame) EXCEPT !.backwards = backwards])
       ELSE finishStart(m3, backwards)

\* (mutant) start() does not look whether a listener is registered
startWithoutListener(m, backwards, r) ==
    IF isPlaying(m.state) /\ (backwards <=> (m.state = PLAYING_BACKWARDS)) THEN m
    ELSE
    LET previousState == Snapshot(m)
        m1 == cancelSuspension(m)
        m2 == [m1 EXCEPT !.state = IF backwards THEN PLAYING_BACKWARDS ELSE PLAYING,
                         !.fraction = IF backwards /\ m1.fraction = 0 THEN FMax
                                      ELSE IF ~backwards /\ m1.fraction = FMax THEN 0
                                      ELSE m1.fraction]
        m3 == Logged(m2, "hook", "start", NoSnapshot, NoSnapshot)
    IN IF ~m.cb.start THEN finishStart(m2, backwards)
       ELSE IF r \in Refusals THEN abortStart(m3, previousState)
       ELSE IF r = "promise"
            THEN Suspend(m3, [Closure("start", [previousState EXCEPT !.isSuspended = FALSE],
                                      0, NoFrame) EXCEPT !.backwards = backwards])
       ELSE finishStart(m3, backwards)

start(m, backwards, r) ==
    IF ~m.cb.present THEN m
    ELSE IF isPlaying(m.state) /\ (backwards <=> (m.state = PLAYING_BACKWARDS)) THEN m
    ELSE
    LET previousState == Snapshot(m)
        m1 == cancelSuspension(m)
        m2 == [m1 EXCEPT !.state = IF backwards THEN PLAYING_BACKWARDS ELSE PLAYING,
                         !.fraction = IF backwards /\ m1.fraction = 0 THEN FMax
                                      ELSE IF ~backwards /\ m1.fraction = FMax THEN 0
                                      ELSE m1.fraction]
        m3 == Logged(m2, "hook", "start", NoSnapshot, NoSnapshot)
    IN IF ~m.cb.start THEN finishStart(m2, backwards)
       ELSE IF r \in Refusals THEN abortStart(m3, previousState)
       ELSE IF r = "promise"
            THEN Suspend(m3, [Closure("start", [previousState EXCEPT !.isSuspended = FALSE],
                                      0, NoFrame) EXCEPT !.backwards = backwards])
       ELSE finishStart(m3, backwards)

\* (mutant) abort does not restore the fraction of the snapshot
abortMoveKeepsFraction(m, previousState) ==
    pause([m EXCEPT !.isSuspended = FALSE])

\* abort and finalize, the two closures of move()
abortMove(m, previousState) ==
    pause([m EXCEPT !.isSuspended = FALSE, !.fraction = previousState.fraction])

finalize(m, previousState, f) ==
    LET m1 == moveInternal([m EXCEPT !.isSuspended = FALSE], f, FALSE)
    IN IF m1.exc THEN m1 ELSE
       dispatchEvent(m1, IF isPlaying(m1.state) THEN "jumpplaying" ELSE "jumppaused",
                     previousState)

\* (mutant) the snapshot is taken before the pending suspension is cancelled
moveSnapshotsFirst(m, f, r) ==
    LET m1 == cancelSuspension(m)
        previousState == Snapshot(m)
    IN IF ~m1.cb.present \/ r \in Refusals THEN abortMove(m1, previousState)
       ELSE IF r = "promise"
            THEN Suspend(m1, Closure("move", previousState, f, NoFrame))
       ELSE finalize(m1, previousState, f)

move(m, f, r) ==
    LET m1 == cancelSuspension(m)
        previousState == Snapshot(m1)
        m2 == m1
    IN IF ~m1.cb.present \/ r \in Refusals THEN abortMove(m2, previousState)
       ELSE IF r = "promise"
            THEN Suspend(m2, Closure("move", previousState, f, NoFrame))
       ELSE finalize(m2, previousState, f)

\* (mutant) a step ends the playback: the machine rests at the new fraction
stepRests(m, r) ==
    IF ~(m.cb.present /\ m.cb.step) THEN m
    ELSE LET m1 == cancelSuspension(m)
         IN IF r.tag \in Refusals THEN m1
            ELSE IF r.tag = "promise"
                 THEN Suspend(m1, Closure("step", NoSnapshot, 0, NoFrame))
            ELSE pause(moveInternal(m1, r.val, FALSE))

\* #step(event): the listener's step hook answers false, a number or a promise
step(m, r) ==
    IF ~(m.cb.present /\ m.cb.step) THEN m
    ELSE LET m1 == cancelSuspension(m)
             m2 == m1
         IN IF r.tag \in Refusals THEN m2
            ELSE IF r.tag = "promise"
                 THEN Suspend(m2, Closure("step", NoSnapshot, 0, NoFrame))
            ELSE moveInternal(m2, r.val, FALSE)

\* (mutant) the snapshot for the event is taken after the button's method ran
clickedSnapshotsAfter(m, target, r) ==
    IF target \notin m.buttons THEN m
    ELSE LET m1 == IF target = "play" THEN start(m, FALSE, r)
                   ELSE IF target = "playBackward" THEN start(m, TRUE, r)
                   ELSE IF target = "pause" THEN pause(m)
                   ELSE stop(m)
             type == IF target = "play" THEN "start"
                     ELSE IF target = "playBackward" THEN "startreverse"
                     ELSE target
         IN IF m1.exc THEN m1 ELSE dispatchEvent(m1, type, Snapshot(m1))

\* #clicked(event): a click on a control button; r is the answer of the start
\* hook if start() calls it
clicked(m, target, r) ==
    IF target \notin m.buttons THEN m
    ELSE LET previousState == Snapshot(m)
             m1 == IF target = "play" THEN start(m, FALSE, r)
                   ELSE IF target = "playBackward" THEN start(m, TRUE, r)
                   ELSE IF target = "pause" THEN pause(m)
                   ELSE stop(m)
             type == IF target = "play" THEN "start"
                     ELSE IF target = "playBackward" THEN "startreverse"
                     ELSE target
         IN IF m1.exc THEN m1 ELSE dispatchEvent(m1, type, previousState)

\* what a caller of state() can do to the object it gets: its state, fraction
\* and isSuspended are copies, its time is the machine's TimeBasedState object;
\* "time.timer" stands for `delete snapshot.time.timer'
mutateSnapshot(m, field) ==
    LET snapshot == Snapshot(m)
    IN IF field = "time.timer" /\ snapshot.time # 0
       THEN [m EXCEPT !.frames = ForgetTimer(m.frames, snapshot.time)]
       ELSE m

\* #DEFAULT_ANIMATION_DURATION, in milliseconds
DEFAULT_ANIMATION_DURATION == 10000

\* get animationDuration(): the attribute if it is a positive number
animationDuration(m) ==
    IF m.attribute > 0 THEN m.attribute ELSE DEFAULT_ANIMATION_DURATION

\* the TimeBasedState objects that the machine, a requested callback or the
\* closure of a promise refers to; the others are garbage
Referenced(m) ==
    ({m.time}
        \cup {m.frames[i].timeObj : i \in DOMAIN m.frames}
        \cup {m.promises[i].run.timeObj : i \in DOMAIN m.promises}
        \cup {m.promises[i].previousState.time : i \in DOMAIN m.promises}
        \cup {m.cancelled[i].previousState.time : i \in DOMAIN m.cancelled}) \ {0}

\* identity of a TimeBasedState object no closure or snapshot refers to
FreshTime(m) ==
    LET used == {m.time}
                \cup {m.frames[i].timeObj : i \in DOMAIN m.frames}
                \cup {m.promises[i].run.timeObj : i \in DOMAIN m.promises}
                \cup {m.promises[i].previousState.time : i \in DOMAIN m.promises}
                \cup {m.cancelled[i].previousState.time : i \in DOMAIN m.cancelled}
    IN CHOOSE t \in 1..(Cardinality(used) + 1) :
          t \notin used /\ \A u \in 1..(t - 1) : u \in used

setAnimationListener(m, listener) ==
    LET m1 == IF m.time # 0 THEN [cancelTimer(m) EXCEPT !.time = 0] ELSE m
        m2 == [m1 EXCEPT !.cb = listener]
    IN IF ~listener.present THEN m2
       ELSE LET t == FreshTime(m2)
                m3 == [m2 EXCEPT !.time = t,
                                 !.durationMillis =
                                     [u \in DOMAIN @ \cup {t} |->
                                         IF u = t THEN animationDuration(m2) ELSE @[u]]]
            IN IF isPlaying(m3.state) THEN startTimer(m3, FALSE) ELSE m3

\* #setAnimationDuration(durationMillis); r is the answer of the start hook
setAnimationDuration(m, d, r) ==
    IF ~(d > 0) THEN m
    ELSE IF ~(isPlaying(m.state) /\ m.time # 0) THEN m
    ELSE LET wasBackward == m.state = PLAYING_BACKWARDS
             m1 == pause(m)
             m2 == [m1 EXCEPT !.durationMillis[m1.time] = d]
         IN IF m1.exc THEN m1 ELSE start(m2, wasBackward, r)

\* setAttribute("animation-duration", v) and the attributeChangedCallback it
\* triggers; the property setter does the same for v > 0
attributeChangedCallback(m, v, r) ==
    LET m1 == [m EXCEPT !.attribute = v]
    IN IF v > 0 THEN setAnimationDuration(m1, v, r) ELSE m1

\* run(timestamp): one callback of the chain c created by #startTimer;
\* m is the machine once the callback has been taken off the frame queue
run(m, c, r) ==
    LET passed == IF c.passed < 0 THEN 0 ELSE c.passed
        backwards == m.state = PLAYING_BACKWARDS
        f == IF backwards THEN Max(0, c.initialFraction - passed)
             ELSE Min(FMax, passed + c.initialFraction)
        c1 == [c EXCEPT !.passed = passed]
    IN IF f = FMax /\ ~backwards THEN finish(m)
       ELSE IF f = 0 /\ backwards THEN stop(m)
       ELSE IF ~m.cb.present THEN [m EXCEPT !.exc = TRUE]   \* TypeError: the callback dies
       ELSE LET m1 == m
            IN IF c.oneOff THEN [m1 EXCEPT !.frames = ForgetTimer(m1.frames, c.timeObj)]
               ELSE IF r \in Refusals THEN pause(m1)
               ELSE IF r = "promise"
                    THEN Suspend(m1, Closure("tick", NoSnapshot, f, c1))
               ELSE Schedule(moveInternal(m1, f, TRUE), c1)

\* the callbacks that are due in the current animation frame, in the order
\* in which they were requested; rs are the answers of the move hook
RECURSIVE runAll(_, _)
runAll(m, rs) ==
    LET due == {i \in DOMAIN m.frames : m.frames[i].due}
    IN IF due = {} THEN m
       ELSE LET i == CHOOSE j \in due : \A k \in due : j <= k
            IN runAll(run([m EXCEPT !.frames = RemoveAt(m.frames, i)], m.frames[i], Head(rs)),
                      Tail(rs))

\* the then/catch handlers of the wrapped promise p of start(), e is how the
\* race with the abort signal ends
settleStart(m, p, e) ==
    IF e = "true" THEN finishStart(m, p.backwards)
    ELSE IF e = "abort" THEN m
    ELSE abortStart(m, p.previousState)

\* ... of move()
settleMove(m, p, e) ==
    IF e = "abort" THEN m
    ELSE IF e = "reject" THEN abortMove(m, p.previousState)
    ELSE LET m1 == IF e = "true" THEN finalize(m, p.previousState, p.fraction)
                   ELSE abortMove(m, p.previousState)
         IN IF m1.exc     \* what the then handler throws is handed to the catch handler
            THEN abortMove([m1 EXCEPT !.exc = FALSE], p.previousState)
            ELSE m1

\* (mutant) a number outside the range is committed like any other
settleStepCommitsAny(m, p, e, newFraction) ==
    IF e = "abort" THEN m
    ELSE LET m1 == [m EXCEPT !.isSuspended = FALSE]
         IN IF e = "number"
            THEN moveInternal(m1, newFraction, FALSE)
            ELSE m1

\* ... of #step(), fulfilled with newFraction
settleStep(m, p, e, newFraction) ==
    IF e = "abort" THEN m
    ELSE LET m1 == [m EXCEPT !.isSuspended = FALSE]
         IN IF e = "number" /\ newFraction >= 0 /\ newFraction <= FMax
            THEN moveInternal(m1, newFraction, FALSE)
            ELSE m1

\* (mutant) the time spent waiting for the promise counts as playing time
settleTickCountsWait(m, p, e) ==
    IF e = "abort" THEN m
    ELSE LET m1 == [m EXCEPT !.isSuspended = FALSE]
         IN IF e = "true"
            THEN Schedule(moveInternal(m1, p.fraction, TRUE), p.run)
            ELSE pause(m1)

\* (mutant) a refused tick commits its candidate fraction before it pauses
settleTickCommitsRefused(m, p, e) ==
    IF e = "abort" THEN m
    ELSE LET m1 == [m EXCEPT !.isSuspended = FALSE]
         IN IF e = "true"
            THEN Schedule(moveInternal(m1, p.fraction, TRUE),
                          [p.run EXCEPT !.passed = p.run.passed - p.waited])
            ELSE pause(moveInternal(m1, p.fraction, TRUE))

\* ... of a clock tick: start is moved by the time that was spent waiting
settleTick(m, p, e) ==
    IF e = "abort" THEN m
    ELSE LET m1 == [m EXCEPT !.isSuspended = FALSE]
         IN IF e = "true"
            THEN Schedule(moveInternal(m1, p.fraction, TRUE),
                          [p.run EXCEPT !.passed = p.run.passed - p.waited])
            ELSE IF e = "reject" THEN pause(m1)
            ELSE LET m2 == pause(m1)
                 IN IF m2.exc
                    THEN pause([m2 EXCEPT !.exc = FALSE, !.isSuspended = FALSE])
                    ELSE m2

\* the listener settles promise p with outcome o; m is the machine without p
settle(m, p, o) ==
    LET e == abortablePromise(p, o.tag)
    IN IF p.kind = "start" THEN settleStart(m, p, e)
       ELSE IF p.kind = "move" THEN settleMove(m, p, e)
       ELSE IF p.kind = "step" THEN settleStep(m, p, e, o.val)
       ELSE settleTick(m, p, e)

\* ---------------------------------------------------------------- actions
\* a hook's answer as the code tells them apart
Answer(r) == IF r \in Refusals THEN "refused" ELSE r

Op(op, arg, flag, result, p) ==
    [op |-> op, arg |-> arg, flag |-> flag, result |-> Answer(result),
     from |-> state, kind |-> p.kind, aborted |-> p.aborted, threw |-> FALSE]

\* the model follows at most MaxChains callbacks and MaxPending promises
Fits(m) == Len(m.frames) <= MaxChains /\ Len(m.promises) <= MaxPending

Becomes(m, op) ==
    /\ Fits(m)
    /\ state' = m.state
    /\ fraction' = m.fraction
    /\ isSuspended' = m.isSuspended
    /\ time' = m.time
    /\ animationCallback' = m.cb
    /\ promises' = m.promises
    /\ cancelled' = m.cancelled
    /\ frames' = m.frames
    /\ buttons' = m.buttons
    /\ log' = m.log
    /\ attribute' = m.attribute
    /\ durationMillis' = [t \in Referenced(m) \cap DOMAIN m.durationMillis |->
                             m.durationMillis[t]]
    /\ lastOp' = [op EXCEPT !.threw = m.exc]

\* fractions handed to move() and answered by the step hook: below the range,
\* strictly inside it, above it
MoveArgs == {-1} \cup 1..(FMax - 1) \cup {FMax + 1}
\* fractions the step hook answers: also the two ends of the range
StepArgs == MoveArgs \cup {0, FMax}
StepResults ==
    [tag : Refusals \cup {"promise"}, val : {0}] \cup [tag : {"number"}, val : StepArgs]
StepOutcomes ==
    [tag : {"false", "reject"}, val : {0}] \cup [tag : {"number"}, val : StepArgs]
BoolOutcomes == [tag : Outcomes, val : {0}]

Init ==
    /\ state = STOPPED
    /\ fraction = 0
    /\ isSuspended = FALSE
    /\ time = 0
    /\ animationCallback = NoListener
    /\ promises = <<>>
    /\ cancelled = <<>>
    /\ frames = <<>>
    /\ buttons = {"play", "playBackward"}
    /\ log = <<>>
    /\ attribute = 0
    /\ durationMillis = [t \in {} |-> 0]
    /\ lastOp = [op |-> "new", arg |-> 0, flag |-> FALSE, result |-> "",
                 from |-> STOPPED, kind |-> "-", aborted |-> FALSE, threw |-> FALSE]

\* no closure or requested callback still refers to the TimeBasedState object
\* that setAnimationListener discards
Unreferenced ==
    LET m == setAnimationListener(Machine, NoListener)
    IN /\ m.frames = <<>>
       /\ \A i \in DOMAIN promises : promises[i].kind = "step"

SetListener(ls) ==
    \E l \in ls :
        /\ setAnimationListener(Machine, l).time <= MaxTimeObjs
        /\ Unreferenced
        /\ Becomes(setAnimationListener(Machine, l),
                   Op("setAnimationListener", 0, l.present, "", NoClosure))

SetAnimationListener == SetListener(Listeners \cup {NoListener})

StartWith(rs) ==
    \E backwards \in BOOLEAN, r \in rs :
        Becomes(start(Machine, backwards, r), Op("start", 0, backwards, r, NoClosure))

Start == StartWith(HookResults)

Stop ==
    Becomes(stop(Machine), Op("stop", 0, isSuspended, "", NoClosure))

Finish ==
    Becomes(finish(Machine), Op("finish", 0, isSuspended, "", NoClosure))

Pause ==
    Becomes(pause(Machine), Op("pause", 0, isSuspended, "", NoClosure))

MoveWith(fs, rs) ==
    \E f \in fs, r \in rs :
        Becomes(move(Machine, f, r), Op("move", f, FALSE, r, NoClosure))

Move == MoveWith(MoveArgs, HookResults)

StepWith(rs) ==
    \E r \in rs :
        Becomes(step(Machine, r), Op("step", r.val, FALSE, r.tag, NoClosure))

Step == StepWith(StepResults)

\* the user clicks a control button that is not disabled
Clicked ==
    \E target \in buttons, r \in HookResults :
        /\ target \in {"pause", "stop"} => r = "true"
        /\ Becomes(clicked(Machine, target, r),
                   Op("click", 0, FALSE, IF target \in {"pause", "stop"} THEN "" ELSE r,
                      [NoClosure EXCEPT !.kind = target]))

\* the clock ticks while a tick's promise is pending and not cancelled
Waiting(p) == p.kind = "tick"

\* an animation frame, delta time units after the last one: every callback
\* requested before it runs with the frame's timestamp; the move hook answers
\* each of them with one of `answers'
FrameWith(answers) ==
    \E delta \in 1..MaxDelta, rs \in [1..Len(frames) -> answers] :
        /\ frames # <<>> \/ \E i \in DOMAIN promises : Waiting(promises[i])
        /\ \A i \in DOMAIN promises : Waiting(promises[i]) => promises[i].waited + delta <= MaxWait
        /\ LET fs == [i \in DOMAIN frames |->
                        [frames[i] EXCEPT !.due = TRUE,
                                          !.passed = IF @ < 0 THEN @ ELSE @ + delta]]
               ps == [i \in DOMAIN promises |->
                        IF Waiting(promises[i])
                        THEN [promises[i] EXCEPT !.waited = @ + delta,
                                                 !.run.passed = @ + delta]
                        ELSE promises[i]]
           IN Becomes(runAll([Machine EXCEPT !.frames = fs, !.promises = ps], rs),
                      Op("frame", Len(frames),
                         frames # <<>> /\ frames[1].oneOff,
                         IF frames # <<>> THEN rs[1] ELSE "",
                         NoClosure))

\* the listener answers every clock tick at once
AnimationFrame == FrameWith(HookResults \ {"promise"})

\* the listener may answer a clock tick with a promise
SuspendingFrame == FrameWith(TickResults)

\* the listener settles a promise it had returned
\* the fraction is no longer the one of the snapshot that a start() or move()
\* took before its hook returned a promise
Drifted(p) == p.kind \in {"start", "move"} /\ p.previousState.fraction # fraction

Settle ==
    \E i \in DOMAIN promises :
        \E o \in IF promises[i].kind = "step" THEN StepOutcomes ELSE BoolOutcomes :
            Becomes(settle([Machine EXCEPT !.promises = RemoveAt(promises, i)],
                              promises[i], o),
                       Op("settle", o.val + promises[i].waited, Drifted(promises[i]),
                          o.tag, promises[i]))

\* the listener settles a promise whose wrapper has been aborted
SettleCancelled ==
    \E i \in DOMAIN cancelled :
        \E o \in IF cancelled[i].kind = "step" THEN StepOutcomes ELSE BoolOutcomes :
            Becomes(settle([Machine EXCEPT !.cancelled = RemoveAt(cancelled, i)],
                              cancelled[i], o),
                       Op("settle", o.val, FALSE, o.tag, cancelled[i]))

Next ==
    \/ SetAnimationListener
    \/ Start
    \/ Stop
    \/ Finish
    \/ Pause
    \/ Move
    \/ Step
    \/ Clicked
    \/ AnimationFrame
    \/ Settle
    \/ SettleCancelled

Spec == Init /\ [][Next]_vars

\* the same machine with a listener whose move hook may defer a clock tick
TickStart == StartWith(TickResults \ {"promise"})
TickMove == MoveWith(1..(FMax - 1), TickResults)

NextTick ==
    \/ SetListener({FullListener})
    \/ TickStart
    \/ Pause
    \/ TickMove
    \/ SuspendingFrame
    \/ Settle
    \/ SettleCancelled

SpecTick == Init /\ [][NextTick]_vars

\* the machine with a listener whose stopped hook may raise an exception, and
\* with fractions that are no finite numbers
FaultArgs == NonFinite \cup 1..(FMax - 1)
FaultListener == SetListener({ThrowingListener, FullListener})
ApprovedStart == StartWith({"true"})
FaultMove == MoveWith(FaultArgs, TickResults)
FaultStep == StepWith([tag : {"number"}, val : FaultArgs])

NextFault ==
    \/ FaultListener
    \/ ApprovedStart
    \/ Stop
    \/ Finish
    \/ Pause
    \/ FaultMove
    \/ FaultStep
    \/ Clicked
    \/ AnimationFrame
    \/ Settle
    \/ SettleCancelled

SpecFault == Init /\ [][NextFault]_vars

\* the machine with a caller that writes to the object state() returned
SnapshotFields == {"state", "fraction", "isSuspended", "time.timer"}

MutateSnapshot ==
    \E field \in SnapshotFields :
        Becomes(mutateSnapshot(Machine, field),
                Op("mutate", 0, field = "time.timer", "", NoClosure))

NextShare ==
    \/ FaultListener
    \/ ApprovedStart
    \/ Stop
    \/ Pause
    \/ AnimationFrame
    \/ MutateSnapshot

SpecShare == Init /\ [][NextShare]_vars

\* the machine with listeners whose hooks approve at once, and animation
\* frames that keep being delivered
ApprovedMove == MoveWith(1..(FMax - 1), {"true"})
ApprovedFrame == FrameWith({"true"})

NextLive ==
    \/ SetListener(Listeners)
    \/ ApprovedStart
    \/ Stop
    \/ Finish
    \/ Pause
    \/ ApprovedMove
    \/ ApprovedFrame

\* weak fairness of the animation frames, WF_vars(ApprovedFrame), written out
\* with the state predicate FramePending for ENABLED <<ApprovedFrame>>_vars:
\* the browser runs every requested callback in its next frame.  A frame at
\* FINISHED that follows a frame at FINISHED repeats it and changes nothing.
FramePending ==
    frames # <<>> /\ ~(lastOp.op = "frame" /\ lastOp.from = FINISHED /\ state = FINISHED)
FrameFairness == []<>(~FramePending) \/ []<><<ApprovedFrame>>_vars

SpecLive == Init /\ [][NextLive]_vars /\ FrameFairness

\* the machine whose listener is replaced or removed in any state, also while
\* a clock tick waits for the promise of the move hook
ReplaceListener ==
    \E l \in {FullListener, NoListener} :
        /\ setAnimationListener(Machine, l).time <= MaxTimeObjs
        /\ Becomes(setAnimationListener(Machine, l),
                   Op("setAnimationListener", 0, l.present, "", NoClosure))

NextReplace ==
    \/ ReplaceListener
    \/ ApprovedStart
    \/ SuspendingFrame
    \/ Settle

SpecReplace == Init /\ [][NextReplace]_vars

\* the machine whose listener is replaced or removed while the promise of a
\* start, move or step hook is pending
StartOrDefer == StartWith({"true", "promise"})
DeferredMove == MoveWith(1..(FMax - 1), {"promise"})
DeferredStep == StepWith([tag : {"promise"}, val : {0}])

NextHandover ==
    \/ ReplaceListener
    \/ StartOrDefer
    \/ DeferredMove
    \/ DeferredStep
    \/ Settle

SpecHandover == Init /\ [][NextHandover]_vars

TypeOK ==
    /\ state \in PlaybackState
    /\ fraction \in 0..FMax
    /\ isSuspended \in BOOLEAN
    /\ buttons \subseteq Buttons

\* ---------------------------------------------------------------------------
\* Properties
\* ---------------------------------------------------------------------------

\* a PlaybackStateInfo that respects the boundary rule of the state machine
Consistent(info) ==
    /\ info.state = STOPPED => info.fraction = 0
    /\ info.state = FINISHED => info.fraction = FMax

\* the resting state that belongs to a fraction
Rest(f) == IF f = 0 THEN STOPPED ELSE IF f = FMax THEN FINISHED ELSE PAUSED

\* C1: a STOPPED snapshot has fraction 0 and a FINISHED snapshot has fraction 1,
\* in what state() returns, in every snapshot handed to the stopped hook and in
\* the from/to pair of every dispatched event.
C1_BoundaryFractions ==
    /\ Consistent([state |-> state, fraction |-> fraction])
    /\ \A i \in DOMAIN log :
        /\ log[i].call \in {"stopped", "event"} => Consistent(log[i].to)
        /\ log[i].call = "event" => Consistent(log[i].from)

\* a deferred start from FINISHED, whose tentative reset of the fraction to 0
\* was rolled back by a rejection, and a stopped hook that saw the boundary
C1_Witness ==
    \/ /\ lastOp.op = "settle" /\ lastOp.kind = "start" /\ ~lastOp.aborted
       /\ lastOp.result = "reject" /\ state = FINISHED
    \/ /\ lastOp.op = "move" /\ lastOp.arg = FMax + 1
       /\ \E i \in DOMAIN log : log[i].call = "stopped" /\ log[i].to.state = FINISHED

\* C2: at most one listener promise is registered, unsettled and not cancelled.
C2_SingleSuspension == Len(promises) <= 1

\* C3: after move(a), an earlier move whose promise was pending is cancelled:
\* the only move promise that can still take effect is the one of this call.
C3_LaterMoveSupersedes ==
    lastOp.op = "move" =>
        Cardinality({i \in DOMAIN promises : promises[i].kind = "move"})
            <= (IF lastOp.result = "promise" THEN 1 ELSE 0)

\* C4: when the promise of a cancelled suspension settles, state, fraction and
\* isSuspended stay as they are, nothing is scheduled and no hook is called and
\* no event is dispatched.
C4_CancelledSettlementIgnored ==
    [][(lastOp'.op = "settle" /\ lastOp'.aborted) =>
          /\ UNCHANGED <<state, fraction, isSuspended, time, frames, promises>>
          /\ log' = <<>>]_vars

\* the promise of a cancelled move was fulfilled with true, and that of a
\* cancelled start was rejected
C4_Witness ==
    /\ lastOp.op = "settle" /\ lastOp.aborted
    /\ \/ lastOp.kind = "move" /\ lastOp.result = "true"
       \/ lastOp.kind = "start" /\ lastOp.result = "reject"

\* C5: an animation frame in which the clock of a forward playback that is not
\* suspended reaches fraction 1 calls finish() exactly once and leaves no clock
\* callback scheduled.
C5_ClockFinishesOnce ==
    [][(lastOp'.op = "frame" /\ state = PLAYING /\ ~isSuspended
            /\ log' # <<>> /\ log'[1].call = "finish") =>
          /\ Cardinality({i \in DOMAIN log' : log'[i].call = "finish"}) = 1
          /\ frames' = <<>>]_vars

\* C6: after an animation frame that ran a one-off callback no clock callback
\* is scheduled.
C6_OneOffEndsClock ==
    (lastOp.op = "frame" /\ lastOp.arg = 1 /\ lastOp.flag) => frames = <<>>

\* C7: isSuspended is true exactly when a listener promise is outstanding.
C7_SuspendedIffOutstanding == isSuspended <=> promises # <<>>

\* C8: start(), whose start hook is called and answers false, undefined or
\* null, leaves state and fraction as before the call and isSuspended false.
C8_RefusedStartReverts ==
    [][(lastOp'.op = "start" /\ lastOp'.result = "refused"
            /\ animationCallback.present /\ animationCallback.start
            /\ state # (IF lastOp'.flag THEN PLAYING_BACKWARDS ELSE PLAYING)) =>
          state' = state /\ fraction' = fraction /\ ~isSuspended']_vars

\* a refused start(false) at FINISHED, where the tentative start had reset the
\* fraction to 0, and a refused start(true) at STOPPED
C8_Witness ==
    /\ lastOp.op = "start" /\ lastOp.result = "refused"
    /\ animationCallback.present /\ animationCallback.start
    /\ \/ state = FINISHED /\ ~lastOp.flag
       \/ state = STOPPED /\ lastOp.flag

\* C9 as stated: move(), whose move hook answers false, undefined or null,
\* leaves state and fraction as before the call and isSuspended false, also
\* when the state before the call was PLAYING or PLAYING_BACKWARDS.
C9_RefusedMoveKeepsState ==
    [][(lastOp'.op = "move" /\ lastOp'.result = "refused"
            /\ animationCallback.present) =>
          state' = state /\ fraction' = fraction /\ ~isSuspended']_vars

\* C9 amended: a refused move() keeps the fraction and leaves isSuspended
\* false; a resting state is kept, a playing state becomes the resting state of
\* the fraction (PAUSED inside the range, STOPPED at 0, FINISHED at 1).
C9_RefusedMovePauses ==
    [][(lastOp'.op = "move" /\ lastOp'.result = "refused"
            /\ animationCallback.present) =>
          /\ fraction' = fraction /\ ~isSuspended'
          /\ state' = Rest(fraction)
          /\ ~isPlaying(state) => state' = state]_vars

\* a refused move() that found the machine playing
C9_Witness ==
    /\ lastOp.op = "move" /\ lastOp.result = "refused"
    /\ animationCallback.present
    /\ isPlaying(lastOp.from)
    /\ state \in {PAUSED, STOPPED}

\* C10: when the promise of a start or move hook is fulfilled with false or
\* rejected, and the call was not cancelled, the machine is left as the
\* synchronous refusal would have left it at the time of the call: start()
\* restores state and fraction of its snapshot, move() restores the fraction of
\* its snapshot and pauses; isSuspended is false.
C10_DeferredRefusalAsSynchronous ==
    [][(lastOp'.op = "settle" /\ ~lastOp'.aborted
            /\ lastOp'.result \in {"refused", "reject"}
            /\ lastOp'.kind \in {"start", "move"}) =>
          \E i \in DOMAIN promises :
              LET previousState == promises[i].previousState IN
              /\ promises[i].kind = lastOp'.kind
              /\ ~isSuspended'
              /\ fraction' = previousState.fraction
              /\ state' = IF lastOp'.kind = "start" THEN previousState.state
                          ELSE Rest(previousState.fraction)]_vars

\* the promise of a move hook was rejected after the clock had moved the
\* fraction away from the one of the snapshot, and the promise of a start hook
\* was fulfilled with false
C10_Witness ==
    \/ /\ lastOp.op = "settle" /\ lastOp.kind = "move" /\ ~lastOp.aborted
       /\ lastOp.result = "reject" /\ lastOp.flag /\ state = PAUSED
    \/ /\ lastOp.op = "settle" /\ lastOp.kind = "start" /\ ~lastOp.aborted
       /\ lastOp.result = "refused" /\ state = PAUSED

\* C11: the fraction that state() returns lies in [0,1] in every reachable
\* state, whatever fractions move() is given, the step hook answers or an abort
\* restores.
C11_FractionInRange == fraction >= 0 /\ fraction <= FMax

\* an approved move() beyond 1, and a step hook that answered a fraction below 0
C11_Witness ==
    \/ /\ lastOp.op = "move" /\ lastOp.arg > FMax /\ lastOp.result = "true"
       /\ animationCallback.present /\ fraction = FMax
    \/ /\ lastOp.op = "step" /\ lastOp.arg < 0 /\ lastOp.result = "number"
       /\ animationCallback.step /\ fraction = 0

\* C12: stop() returns with state STOPPED, fraction 0 and isSuspended false,
\* finish() with state FINISHED, fraction 1 and isSuspended false, from every
\* state and also while a suspension is outstanding.
C12_StopAndFinishAlwaysSucceed ==
    /\ lastOp.op = "stop" => state = STOPPED /\ fraction = 0 /\ ~isSuspended
    /\ lastOp.op = "finish" => state = FINISHED /\ fraction = FMax /\ ~isSuspended

\* stop() found a tentative PLAYING whose start hook had not answered yet
C12_Witness ==
    /\ lastOp.op = "stop" /\ lastOp.flag /\ isPlaying(lastOp.from)
    /\ cancelled # <<>> /\ state = STOPPED

\* C13: pause() leaves isSuspended false; at a fraction <= 0 it ends as stop()
\* does (STOPPED, 0), at a fraction >= 1 as finish() does (FINISHED, 1), and
\* otherwise the state is PAUSED, the fraction is the one before the call and
\* no clock callback is scheduled.
C13_PauseRests ==
    [][lastOp'.op = "pause" =>
          /\ ~isSuspended'
          /\ fraction <= 0 => state' = STOPPED /\ fraction' = 0
          /\ fraction >= FMax => state' = FINISHED /\ fraction' = FMax
          /\ (fraction > 0 /\ fraction < FMax) =>
                state' = PAUSED /\ fraction' = fraction /\ frames' = <<>>]_vars

\* C14: an exception that the listener's stopped hook raises does not
\* propagate out of stop(), finish(), pause(), move() or a clock tick.
C14_StoppedHookExceptionsCaught ==
    (/\ lastOp.op \in {"stop", "finish", "pause", "move", "frame"}
     /\ isFinite(lastOp.arg)
     /\ \E i \in DOMAIN log : log[i].call = "stopped" /\ log[i].type = "thrown")
        => ~lastOp.threw

\* C15: a fraction that is no finite number (NaN, +Infinity, -Infinity) and
\* reaches the commit step, through an approved move() or a number the step
\* hook answers, raises an error.
C15_NonFiniteRaises ==
    (/\ ~isFinite(lastOp.arg)
     /\ \/ lastOp.op = "move" /\ lastOp.result = "true" /\ animationCallback.present
        \/ lastOp.op = "step" /\ lastOp.result = "number" /\ animationCallback.step)
        => lastOp.threw

\* C16: start(false) while PLAYING, and start(true) while PLAYING_BACKWARDS,
\* called directly or by a click on the play button of that direction, changes
\* neither state, fraction, isSuspended, the outstanding suspension nor the
\* clock, calls no hook and emits no event.
C16_StartWhilePlayingIsNoOp ==
    [][(\E backwards \in BOOLEAN :
            /\ \/ lastOp'.op = "start" /\ lastOp'.flag = backwards
               \/ /\ lastOp'.op = "click"
                  /\ lastOp'.kind = (IF backwards THEN "playBackward" ELSE "play")
            /\ state = (IF backwards THEN PLAYING_BACKWARDS ELSE PLAYING)) =>
          /\ UNCHANGED <<state, fraction, isSuspended, time, promises, cancelled,
                         frames, buttons>>
          /\ log' = <<>>]_vars

\* the events that the last operation dispatched, in order
Events(l) == SelectSeq(l, LAMBDA e : e.call = "event")

\* the two events of a transition
Transition(type, from, to) ==
    << [call |-> "event", type |-> type, from |-> from, to |-> to],
       [call |-> "event", type |-> "change", from |-> from, to |-> to] >>

MoveWhilePaused ==
    /\ lastOp'.op = "move" /\ lastOp'.result = "true"
    /\ lastOp'.arg > 0 /\ lastOp'.arg < FMax
    /\ animationCallback.present /\ state = PAUSED

FreshWithMoveListener ==
    /\ state = STOPPED /\ fraction = 0 /\ ~isSuspended
    /\ animationCallback = MoveOnlyListener
    /\ promises = <<>> /\ cancelled = <<>> /\ frames = <<>>
    /\ buttons = {"play", "playBackward"}

StoppedInfo == [state |-> STOPPED, fraction |-> 0, isSuspended |-> FALSE]
PlayingInfo == [state |-> PLAYING, fraction |-> 0, isSuspended |-> FALSE]

\* C18 as stated: on such a machine start(false) leaves state PLAYING and
\* fraction 0 and fires a start event from STOPPED to PLAYING.
C18_StartFiresStartEvent ==
    [][(FreshWithMoveListener /\ lastOp'.op = "start" /\ ~lastOp'.flag) =>
          /\ state' = PLAYING /\ fraction' = 0
          /\ Events(log') = Transition("start", StoppedInfo, PlayingInfo)]_vars

\* C18 amended: start(false) leaves state PLAYING and fraction 0 and fires no
\* event; the start event from STOPPED to PLAYING (and its change event) is
\* fired when the same start is made by a click on the play button.
C18_OnlyClickedStartFiresStartEvent ==
    [][FreshWithMoveListener =>
          /\ (lastOp'.op = "start" /\ ~lastOp'.flag) =>
                state' = PLAYING /\ fraction' = 0 /\ log' = <<>>
          /\ (lastOp'.op = "click" /\ lastOp'.kind = "play") =>
                /\ state' = PLAYING /\ fraction' = 0
                /\ Events(log') = Transition("start", StoppedInfo, PlayingInfo)]_vars

\* start(false) was called on a stopped machine whose listener has no start
\* hook, and the clock was started
C18_Witness ==
    /\ lastOp.op = "start" /\ ~lastOp.flag /\ lastOp.from = STOPPED
    /\ animationCallback = MoveOnlyListener
    /\ state = PLAYING /\ fraction = 0 /\ log = <<>> /\ Len(frames) = 1

\* C19: start(), stop() and pause() called directly dispatch no event, neither
\* at once nor when a pending start is settled, and every start, startreverse
\* or stop event comes from a click on a control button.
C19_OnlyClicksDispatch ==
    /\ lastOp.op \in {"start", "stop", "pause"} => Events(log) = <<>>
    /\ (lastOp.op = "settle" /\ lastOp.kind = "start") => Events(log) = <<>>
    /\ \A i \in DOMAIN log :
          (log[i].call = "event" /\ log[i].type \in {"start", "startreverse", "stop"})
            => lastOp.op = "click"

\* stop() was called directly on a playing machine and stopped it
C19_Witness ==
    /\ lastOp.op = "stop" /\ lastOp.from = PLAYING /\ state = STOPPED
    /\ log # <<>> /\ Events(log) = <<>>

\* C20: whatever a caller writes to the object that state() returned, or to
\* an object reachable from it, the machine's state, fraction, isSuspended and
\* timing record (the TimeBasedState object and the callback its timer handle
\* refers to) stay as they are.
C20_StateIsDefensiveCopy ==
    [][lastOp'.op = "mutate" =>
          UNCHANGED <<state, fraction, isSuspended, time, frames>>]_vars

\* a step hook's answer inside [0,1] that is applied by the commit step, at
\* once or when its promise is fulfilled
AcceptedStep ==
    /\ lastOp'.result = "number" /\ lastOp'.arg \in 0..FMax
    /\ \/ lastOp'.op = "step" /\ animationCallback.present /\ animationCallback.step
       \/ lastOp'.op = "settle" /\ lastOp'.kind = "step" /\ ~lastOp'.aborted

\* the state in which the commit step leaves a machine of state s at fraction f
StepLands(s, f) ==
    IF (s = PLAYING /\ f # FMax) \/ (s = PLAYING_BACKWARDS /\ f # 0) THEN s ELSE Rest(f)

\* C21 as stated: an accepted step leaves the state as it was before the step.
C21_StepKeepsState ==
    [][AcceptedStep => state' = state]_vars

\* C21 amended: an accepted step keeps a playing state unless the new fraction
\* is the end of its direction (1 forwards, 0 backwards); in that case, and from
\* every resting state, the machine is left in the resting state of the new
\* fraction (STOPPED at 0, FINISHED at 1, PAUSED inside the range).
C21_StepKeepsPlaying ==
    [][AcceptedStep =>
          /\ fraction' = lastOp'.arg
          /\ state' = StepLands(state, lastOp'.arg)]_vars

\* a step inside the range while playing, and a step from STOPPED that left
\* the machine PAUSED
C21_Witness ==
    /\ lastOp.op = "step" /\ lastOp.result = "number" /\ lastOp.arg = 1
    /\ animationCallback.step /\ fraction = 1
    /\ \/ lastOp.from = PLAYING_BACKWARDS /\ state = PLAYING_BACKWARDS
       \/ lastOp.from = STOPPED /\ state = PAUSED

\* start(backwards) was called in a resting state with a listener registered
StartedFromRest(backwards) ==
    /\ lastOp.op = "start" /\ lastOp.flag = backwards
    /\ animationCallback.present /\ ~isPlaying(lastOp.from)

\* an operation other than an animation frame came after that start
Interrupted == lastOp.op # "frame" /\ ~(lastOp.op = "start" /\ ~isPlaying(lastOp.from))

\* C22: with hooks that approve at once and animation frames that keep coming,
\* start(false) in a resting state (FINISHED and STOPPED included) leads to
\* FINISHED with fraction 1, and start(true) to STOPPED with fraction 0, unless
\* another operation is made in between.
C22_PlaybackCompletes ==
    /\ StartedFromRest(FALSE) ~> ((state = FINISHED /\ fraction = FMax) \/ Interrupted)
    /\ StartedFromRest(TRUE) ~> ((state = STOPPED /\ fraction = 0) \/ Interrupted)

\* the clock of a playback that was started at FINISHED has run back to FINISHED
C22_Witness ==
    /\ lastOp.op = "frame" /\ lastOp.from = PLAYING
    /\ state = FINISHED /\ fraction = FMax
    /\ \E i \in DOMAIN log : log[i].call = "finish"

C24_StartWithoutListenerIsNoOp ==
    [][(lastOp'.op = "start" /\ ~animationCallback.present) =>
          /\ UNCHANGED <<state, fraction, isSuspended, time, frames, promises,
                         cancelled, buttons>>
          /\ log' = <<>>]_vars

\* start() was called after the listener had been removed from a machine that
\* was not in its initial state
C24_Witness ==
    /\ lastOp.op = "start" /\ ~animationCallback.present
    /\ \/ state = PAUSED /\ fraction = 1
       \/ state = FINISHED /\ ~lastOp.flag
       \/ isSuspended

\* a callback of a repeating clock chain is scheduled and its handle is the
\* one in #state.time.timer
ClockRuns(fs, t) ==
    \E i \in DOMAIN fs : fs[i].timeObj = t /\ fs[i].isTimer /\ ~fs[i].oneOff

Requested(p) == IF p.backwards THEN PLAYING_BACKWARDS ELSE PLAYING

\* C25: while the promise of a start hook is pending, an animation frame
\* neither cancels it nor changes the tentative state, and when it is then
\* fulfilled with true the machine is in the requested playing state with
\* isSuspended false and a repeating clock callback scheduled.
C25_DeferredStartCommits ==
    [][\A i \in DOMAIN promises :
          promises[i].kind = "start" =>
            /\ lastOp'.op = "frame" =>
                  /\ \E j \in DOMAIN promises' : promises'[j] = promises[i]
                  /\ state' = Requested(promises[i])
            /\ (lastOp'.op = "settle" /\ lastOp'.kind = "start" /\ ~lastOp'.aborted
                    /\ lastOp'.result = "true") =>
                  /\ state' = Requested(promises[i])
                  /\ ~isSuspended'
                  /\ ClockRuns(frames', time')]_vars

\* C26: while isSuspended is true an animation frame changes neither the
\* fraction nor the state and does not end the suspension: the clock does not
\* tick until the pending promise is settled or cancelled by an operation.
C26_NoTickWhileSuspended ==
    [][(isSuspended /\ lastOp'.op = "frame") =>
          UNCHANGED <<fraction, state, isSuspended>>]_vars

\* C27: a move() or a step that cancels the suspension of a start whose hook
\* has not answered does not leave the machine playing in the requested
\* direction with a repeating clock callback scheduled.
C27_CancelledStartNeverPlays ==
    [][\A i \in DOMAIN promises :
          (/\ promises[i].kind = "start" /\ promises[i].ctrl /\ isSuspended
           /\ lastOp'.op \in {"move", "step"}
           /\ \E j \in DOMAIN cancelled' :
                 cancelled'[j].kind = "start" /\ cancelled'[j].aborted) =>
             ~(state' = Requested(promises[i]) /\ ClockRuns(frames', time'))]_vars

\* C28: whenever a listener is registered, the state is PLAYING or
\* PLAYING_BACKWARDS and isSuspended is false, a clock callback is scheduled.
C28_PlayingHasClock ==
    (animationCallback.present /\ isPlaying(state) /\ ~isSuspended) => frames # <<>>

\* C29: at most one clock callback is scheduled at any time.
C29_SingleClock == Len(frames) <= 1

\* C30: every scheduled clock callback belongs to the TimeBasedState object
\* that the last setAnimationListener created: a chain created under an
\* earlier listener is never scheduled again, also if it was waiting for the
\* promise of a clock tick when the listener was replaced or removed.
C30_OldChainsNeverRun ==
    \A i \in DOMAIN frames : frames[i].timeObj = time

\* C31: when a promise of a start, move or step hook settles right after
\* setAnimationListener has replaced or removed the listener that returned it,
\* state, fraction, isSuspended and the scheduled clock callbacks stay as they
\* are.
C31_ReplacedListenerPromisesIgnored ==
    [][(/\ lastOp.op = "setAnimationListener"
        /\ lastOp'.op = "settle" /\ lastOp'.kind \in {"start", "move", "step"}) =>
          UNCHANGED <<state, fraction, isSuspended, frames>>]_vars

\* the move hook refused a clock tick: at once (the callback called pause()),
\* or by a promise that was fulfilled with false or rejected
TickRefused ==
    \/ /\ lastOp'.op = "frame" /\ lastOp'.arg = 1 /\ ~lastOp'.flag
       /\ lastOp'.result = "refused" /\ isPlaying(state)
       /\ log' # <<>> /\ log'[1].call = "pause"
    \/ /\ lastOp'.op = "settle" /\ lastOp'.kind = "tick" /\ ~lastOp'.aborted
       /\ lastOp'.result \in {"refused", "reject"}
       /\ \A i \in DOMAIN frames : frames[i].oneOff

Candidate(c, s) ==
    IF s = PLAYING_BACKWARDS THEN Max(0, c.initialFraction - Max(0, c.passed))
    ELSE Min(FMax, Max(0, c.passed) + c.initialFraction)

StoppedCalls(l) == {i \in DOMAIN l : l[i].call = "stopped"}

\* C34: an accepted step is one run of the commit step on (state, f). From
\* PAUSED, STOPPED or FINISHED, with f = 0 while PLAYING_BACKWARDS and with
\* f = 1 while PLAYING it leaves STOPPED at 0, FINISHED at 1 and PAUSED
\* otherwise, and a stopped hook is called once with that snapshot; in every
\* other case the playing state is kept and no stopped hook is called.
C34_CommitResolvesState ==
    [][AcceptedStep =>
          LET f == lastOp'.arg
              resting == \/ state \in {PAUSED, STOPPED, FINISHED}
                         \/ f = 0 /\ state = PLAYING_BACKWARDS
                         \/ f = FMax /\ state = PLAYING
              calls == StoppedCalls(log')
          IN /\ fraction' = f
             /\ resting => /\ state' = Rest(f)
                           /\ animationCallback.stopped =>
                                 /\ Cardinality(calls) = 1
                                 /\ \A i \in calls :
                                       /\ log'[i].to.state = state'
                                       /\ log'[i].to.fraction = f
             /\ ~resting => state' = state /\ calls = {}]_vars

\* a step to fraction 0 was accepted while playing forwards: the machine is
\* still playing and the stopped hook, which exists, was not called
C34_Witness ==
    /\ lastOp.op = "step" /\ lastOp.result = "number" /\ lastOp.arg = 0
    /\ lastOp.from = PLAYING /\ state = PLAYING /\ fraction = 0
    /\ animationCallback.step /\ animationCallback.stopped
    /\ StoppedCalls(log) = {}

\* the fraction from which a playback in the given direction sets out
StartFraction(f, backwards) ==
    IF backwards /\ f = 0 THEN FMax
    ELSE IF ~backwards /\ f = FMax THEN 0
    ELSE f

\* start(backwards) was called with a listener that lets it go ahead, in a
\* state other than playing in that direction
StartGoesAhead ==
    /\ lastOp'.op = "start" /\ animationCallback.present
    /\ ~(isPlaying(state) /\ state = Requested([backwards |-> lastOp'.flag]))
    /\ ~animationCallback.start \/ lastOp'.result \in {"true", "promise"}

\* the clock chain of the registered time object sets out from fraction f
ClockStartsAt(fs, t, f) ==
    \E i \in DOMAIN fs :
        /\ fs[i].timeObj = t /\ fs[i].isTimer /\ ~fs[i].oneOff
        /\ fs[i].initialFraction = f /\ fs[i].passed < 0

C36_StartEventOnlyOnCommit ==
    \A i \in DOMAIN log :
        log[i].call = "event" =>
            /\ ~log[i].to.isSuspended
            /\ log[i].type = "start" => log[i].to.state = PLAYING
            /\ log[i].type = "startreverse" => log[i].to.state = PLAYING_BACKWARDS

\* the machine whose animation-duration attribute is set while no animation
\* frame arrives: absent or not a number (0), or a number of milliseconds
AttributeValues == {0, 5000, 20000}

SetAttribute ==
    \E v \in AttributeValues, r \in {"true", "false"} :
        /\ r = "false" => v > 0 /\ isPlaying(state) /\ animationCallback.start
        /\ Becomes(attributeChangedCallback(Machine, v, r),
                   Op("setAttribute", v, FALSE, r, NoClosure))

NextDuration ==
    \/ SetAnimationListener
    \/ SetAttribute
    \/ ApprovedStart
    \/ Pause
    \/ Stop

SpecDuration == Init /\ [][NextDuration]_vars

\* C37: while a listener is registered, the durationMillis of the machine's
\* TimeBasedState is the configured animation duration (the attribute, or the
\* default of 10 s), whatever the state was in which the attribute was set.
C37_DurationIsConfigured ==
    animationCallback.present =>
        /\ time \in DOMAIN durationMillis
        /\ durationMillis[time] = animationDuration(Machine)

\* C38: a call of stop(), finish() or pause() on a machine whose listener has
\* a stopped hook calls that hook exactly once, with the snapshot in which the
\* call leaves the machine.
C38_StoppedHookOnce ==
    (lastOp.op \in {"stop", "finish", "pause"} /\ animationCallback.stopped) =>
        /\ Cardinality(StoppedCalls(log)) = 1
        /\ \A i \in StoppedCalls(log) :
              log[i].to = [state |-> state, fraction |-> fraction,
                           isSuspended |-> isSuspended]

\* the step hook refuses at once, or its promise is fulfilled with false or
\* with a number outside the range, or is rejected
RejectedStep ==
    \/ /\ lastOp'.op = "step" /\ animationCallback.present /\ animationCallback.step
       /\ lastOp'.result = "refused"
    \/ /\ lastOp'.op = "settle" /\ lastOp'.kind = "step" /\ ~lastOp'.aborted
       /\ \/ lastOp'.result \in {"refused", "reject"}
          \/ lastOp'.result = "number" /\ lastOp'.arg \notin 0..FMax

====
